---- MODULE Spec2Model ----
(***************************************************************************)
(* Model of the `alphabetic` crate: the AlphabeticLetter value type, its   *)
(* constructors (from_index, try_from(u8), try_from(char), from_string),   *)
(* the wrap-around shift and the conversions back to u8 / char.            *)
(*                                                                         *)
(* A char is modelled by its Unicode code point and a u8 by its value.     *)
(* u8 arithmetic that exceeds 255 either panics (overflow checks on, the   *)
(* debug profile) or wraps modulo 256 (overflow checks off, the release    *)
(* profile); both outcomes are transitions of the model.                   *)
(***************************************************************************)
EXTENDS Integers, Sequences, FiniteSets

VARIABLES
    call,      \* the last public operation called and its arguments
    result,    \* the Result returned by the last constructor call
    letter,    \* the AlphabeticLetter the caller holds: <<>> or <<l>>
    origin,    \* the letter as it was constructed: <<>> or <<l>>
    prev,      \* the letter as it was before the last shift: <<>> or <<l>>
    amounts,   \* the shift amounts applied to the letter since construction
    out,       \* the value produced by the last conversion back to u8 / char
    panicked   \* TRUE once an operation has panicked

vars == <<call, result, letter, origin, prev, amounts, out, panicked>>

-----------------------------------------------------------------------------
(* Bounds of the model *)

\* shifts applied to one letter
MaxShifts == 2
\* amounts -AmountSpan .. AmountSpan are tried, besides the extreme ones
AmountSpan == 2
\* code points 0 .. CharSpan are tried, besides a few larger ones
CharSpan == 130
\* length of the strings given to from_string
MaxLen == 2

-----------------------------------------------------------------------------
(* Machine integers *)

U8_MODULUS == 256
U8_MAX == U8_MODULUS - 1
I32_MAX == 2147483647
I32_MIN == -I32_MAX - 1
CHAR_MAX == 1114111

\* x as u8: the low eight bits of a two's complement integer
AsU8(x) == x % U8_MODULUS

\* a % b of Rust on i32, b > 0: the remainder truncates towards zero and
\* takes the sign of a
RemI32(a, b) ==
    IF a >= 0 THEN a % b
    ELSE LET m == a % b IN IF m = 0 THEN 0 ELSE m - b

-----------------------------------------------------------------------------
(* enums.rs, error.rs *)

Lowercase == "Lowercase"
Uppercase == "Uppercase"
LetterCase == {Lowercase, Uppercase}

NotAlphabeticError == "NotAlphabeticError"

Ok(v) == [ok |-> TRUE, val |-> v, err |-> ""]
Err(e) == [ok |-> FALSE, val |-> <<>>, err |-> e]

-----------------------------------------------------------------------------
(* alphabetic.rs *)

ALPHABET_SIZE == 26

\* b'a', b'A'
LowerA == 97
UpperA == 65

AlphabeticLetter(index, case) == [index |-> index, case |-> case]

\* u8::is_ascii_lowercase / char::is_ascii_lowercase
is_ascii_lowercase(value) == value >= LowerA /\ value <= LowerA + 25

\* u8::is_ascii_uppercase / char::is_ascii_uppercase
is_ascii_uppercase(value) == value >= UpperA /\ value <= UpperA + 25

\* char::is_ascii_alphabetic
is_ascii_alphabetic(value) ==
    is_ascii_lowercase(value) \/ is_ascii_uppercase(value)

from_index(index, case) == AlphabeticLetter(index, case)

\* try_from(u8) whose second test forgot the upper end of A-Z
try_from_u8_NoUpperLimit(value) ==
    IF is_ascii_lowercase(value)
    THEN Ok(<<AlphabeticLetter(value - LowerA, Lowercase)>>)
    ELSE IF value >= UpperA /\ value < LowerA
    THEN Ok(<<AlphabeticLetter(value - UpperA, Uppercase)>>)
    ELSE Err(NotAlphabeticError)

try_from_u8(value) ==
    IF is_ascii_lowercase(value)
    THEN Ok(<<AlphabeticLetter(value - LowerA, Lowercase)>>)
    ELSE IF is_ascii_uppercase(value)
    THEN Ok(<<AlphabeticLetter(value - UpperA, Uppercase)>>)
    ELSE Err(NotAlphabeticError)

\* u8::try_from(char): fails for code points above 255
U8TryFromChar(value) ==
    IF value <= U8_MAX THEN Ok(<<value>>) ELSE Err("TryFromCharError")

\* try_from(char) with the case tags of the two branches exchanged
try_from_char_SwappedCase(value) ==
    IF ~is_ascii_alphabetic(value) THEN Err(NotAlphabeticError)
    ELSE LET byte == U8TryFromChar(value) IN
         IF ~byte.ok THEN Err(NotAlphabeticError)
         ELSE IF is_ascii_lowercase(value)
         THEN Ok(<<AlphabeticLetter(byte.val[1] - LowerA, Uppercase)>>)
         ELSE IF is_ascii_uppercase(value)
         THEN Ok(<<AlphabeticLetter(byte.val[1] - UpperA, Lowercase)>>)
         ELSE Err("unreachable")

try_from_char(value) ==
    IF ~is_ascii_alphabetic(value) THEN Err(NotAlphabeticError)
    ELSE LET byte == U8TryFromChar(value) IN
         IF ~byte.ok THEN Err(NotAlphabeticError)
         ELSE IF is_ascii_lowercase(value)
         THEN Ok(<<AlphabeticLetter(byte.val[1] - LowerA, Lowercase)>>)
         ELSE IF is_ascii_uppercase(value)
         THEN Ok(<<AlphabeticLetter(byte.val[1] - UpperA, Uppercase)>>)
         ELSE Err("unreachable")

\* chars().map(try_from).collect::<Result<Vec<_>>>(): the letters are
\* collected in order and the first Err ends the collection
RECURSIVE Collect(_, _, _)
Collect(input, i, acc) ==
    IF i > Len(input) THEN Ok(acc)
    ELSE LET r == try_from_char(input[i]) IN
         IF r.ok THEN Collect(input, i + 1, Append(acc, r.val[1]))
         ELSE Err(r.err)

\* from_string that drops the characters try_from rejects (filter_map)
from_string_SkipsErrors(input) ==
    LET kept == SelectSeq(input, LAMBDA c : try_from_char(c).ok) IN
    Ok([i \in 1 .. Len(kept) |-> try_from_char(kept[i]).val[1]])

from_string(input) == Collect(input, 1, <<>>)

\* the offset without the + 26 that makes it positive
ShiftOffset_NoBias(amount) == AsU8(RemI32(amount, ALPHABET_SIZE))

\* the offset with the cast to u8 applied to the amount, before the modulo
ShiftOffset_CastFirst(amount) ==
    (AsU8(amount) % ALPHABET_SIZE) + ALPHABET_SIZE

\* (amount % 26 + 26) as u8
ShiftOffset(amount) ==
    AsU8(RemI32(amount, ALPHABET_SIZE) + ALPHABET_SIZE)

\* self.index + offset, before it is stored in a u8
ShiftSum(l, amount) == l.index + ShiftOffset(amount)

\* shift that rebuilds the letter with the default case
shift_DefaultCase(l, amount) ==
    AlphabeticLetter(AsU8(ShiftSum(l, amount)) % ALPHABET_SIZE, Lowercase)

\* shift without the final % ALPHABET_SIZE
shift_NoWrap(l, amount) == AlphabeticLetter(AsU8(ShiftSum(l, amount)), l.case)

\* the letter after shift, the sum taken modulo 256 as the u8 holds it
shift(l, amount) ==
    AlphabeticLetter(AsU8(ShiftSum(l, amount)) % ALPHABET_SIZE, l.case)

\* the conversion back that adds b'a' whatever the case
IntoSum_IgnoresCase(val) == val.index + LowerA

\* val.index + b'a' / val.index + b'A', before it is stored in a u8
IntoSum(val) ==
    IF val.case = Lowercase THEN val.index + LowerA ELSE val.index + UpperA

\* u8::from(AlphabeticLetter)
into_u8(val) == AsU8(IntoSum(val))

\* char::from(u8): the code point of the same value
CharFromU8(b) == b

\* char::from(AlphabeticLetter)
into_char(val) == CharFromU8(AsU8(IntoSum(val)))

-----------------------------------------------------------------------------
(* Inputs *)

\* indices given to from_index: every valid one and some that are not
IndexInputs == (0 .. ALPHABET_SIZE - 1) \cup {26, 100, 204, 205, 230, U8_MAX}

ByteInputs == 0 .. U8_MAX

\* U+00E9, U+0141 and U+0161 (low bytes 'A' and 'a'), U+212A, U+10FFFF
CharInputs == (0 .. CharSpan) \cup {233, 321, 353, 8490, CHAR_MAX}

\* 'H', 'i', 'z', '1', ' ', U+00E9
StrChars == {72, 105, 122, 49, 32, 233}

RECURSIVE StringsUpTo(_)
StringsUpTo(n) ==
    IF n = 0 THEN {<<>>}
    ELSE LET shorter == StringsUpTo(n - 1) IN
         shorter \cup {Append(s, c) : s \in {t \in shorter : Len(t) = n - 1},
                                      c \in StrChars}

StrInputs == StringsUpTo(MaxLen)

BaseAmounts ==
    (-AmountSpan .. AmountSpan) \cup {-3, 5, I32_MIN, I32_MAX}

\* the amounts tried, closed under the complement 26 - (n mod 26), the
\* modulo taken either as the non-negative one or as Rust's remainder
AmountInputs ==
    BaseAmounts
        \cup {ALPHABET_SIZE - (n % ALPHABET_SIZE) : n \in BaseAmounts}
        \cup {ALPHABET_SIZE - RemI32(n, ALPHABET_SIZE) : n \in BaseAmounts}

-----------------------------------------------------------------------------
(* State machine *)

NoCall == [op |-> "none", num |-> 0, case |-> Lowercase, str |-> <<>>]
Called(op, num, case, str) ==
    [op |-> op, num |-> num, case |-> case, str |-> str]

NoOut == [kind |-> "none", val |-> 0]

Init ==
    /\ call = NoCall
    /\ result = Err("")
    /\ letter = <<>>
    /\ origin = <<>>
    /\ prev = <<>>
    /\ amounts = <<>>
    /\ out = NoOut
    /\ panicked = FALSE

\* a constructor returned r: the caller keeps the letter of an Ok. The caller
\* follows one letter at a time: it constructs one when it holds none
Constructed(c, r, keep) ==
    /\ call' = c
    /\ result' = r
    /\ letter' = IF r.ok /\ keep THEN r.val ELSE <<>>
    /\ origin' = letter'
    /\ prev' = <<>>
    /\ amounts' = <<>>
    /\ out' = NoOut
    /\ panicked' = (r.err = "unreachable")

FromIndex ==
    /\ ~panicked
    /\ Len(letter) = 0
    /\ \E index \in IndexInputs, case \in LetterCase :
          Constructed(Called("from_index", index, case, <<>>),
                      Ok(<<from_index(index, case)>>), TRUE)

TryFromU8 ==
    /\ ~panicked
    /\ Len(letter) = 0
    /\ \E value \in ByteInputs :
          Constructed(Called("try_from_u8", value, Lowercase, <<>>),
                      try_from_u8(value), TRUE)

TryFromChar ==
    /\ ~panicked
    /\ Len(letter) = 0
    /\ \E value \in CharInputs :
          Constructed(Called("try_from_char", value, Lowercase, <<>>),
                      try_from_char(value), TRUE)

FromString ==
    /\ ~panicked
    /\ Len(letter) = 0
    /\ \E input \in StrInputs :
          Constructed(Called("from_string", 0, Lowercase, input),
                      from_string(input), FALSE)

\* letter.shift(amount): the u8 addition either fits, wraps or panics
Shift ==
    /\ ~panicked
    /\ Len(letter) = 1
    /\ Len(amounts) < MaxShifts
    /\ \E amount \in AmountInputs :
          /\ call' = Called("shift", amount, Lowercase, <<>>)
          /\ prev' = letter
          /\ out' = NoOut
          /\ UNCHANGED <<result, origin>>
          /\ \/ /\ letter' = <<shift(letter[1], amount)>>
                /\ amounts' = Append(amounts, amount)
                /\ UNCHANGED panicked
             \/ /\ ShiftSum(letter[1], amount) > U8_MAX
                /\ panicked' = TRUE
                /\ UNCHANGED <<letter, amounts>>

\* u8::from(letter)
IntoU8 ==
    /\ ~panicked
    /\ Len(letter) = 1
    /\ out.kind = "none"
    /\ UNCHANGED <<call, result, letter, origin, prev, amounts>>
    /\ \/ /\ out' = [kind |-> "u8", val |-> into_u8(letter[1])]
          /\ UNCHANGED panicked
       \/ /\ IntoSum(letter[1]) > U8_MAX
          /\ panicked' = TRUE
          /\ UNCHANGED out

\* char::from(letter)
IntoChar ==
    /\ ~panicked
    /\ Len(letter) = 1
    /\ out.kind = "none"
    /\ UNCHANGED <<call, result, letter, origin, prev, amounts>>
    /\ \/ /\ out' = [kind |-> "char", val |-> into_char(letter[1])]
          /\ UNCHANGED panicked
       \/ /\ IntoSum(letter[1]) > U8_MAX
          /\ panicked' = TRUE
          /\ UNCHANGED out

Next ==
    \/ FromIndex
    \/ TryFromU8
    \/ TryFromChar
    \/ FromString
    \/ Shift
    \/ IntoU8
    \/ IntoChar

Spec == Init /\ [][Next]_vars

-----------------------------------------------------------------------------
(* Properties *)

AsciiLetters == (65 .. 90) \cup (97 .. 122)

\* (p + n) mod 26, non-negative; n is reduced first so that the sum stays
\* within the integers of the model checker
MathMod(p, n) == (((p + (n % ALPHABET_SIZE)) % ALPHABET_SIZE) + ALPHABET_SIZE) % ALPHABET_SIZE

RECURSIVE SumMod(_)
SumMod(ns) ==
    IF ns = <<>> THEN 0
    ELSE ((Head(ns) % ALPHABET_SIZE) + SumMod(Tail(ns))) % ALPHABET_SIZE

RECURSIVE Sum(_)
Sum(ns) == IF ns = <<>> THEN 0 ELSE Head(ns) + Sum(Tail(ns))

Small(ns) == \A i \in 1 .. Len(ns) : ns[i] >= -1000 /\ ns[i] <= 1000

Shifted == call.op = "shift"

\* C1: every AlphabeticLetter produced by the public operations, from_index
\* with any u8 index included, has index < ALPHABET_SIZE.
C1_IndexBelowAlphabetSize ==
    /\ \A i \in 1 .. Len(letter) : letter[i].index < ALPHABET_SIZE
    /\ \A i \in 1 .. Len(result.val) : result.val[i].index < ALPHABET_SIZE

\* C2: for a letter with index p < 26 and any i32 amount n, shift(n) completes
\* and sets the index to the non-negative modulo ((p + n) mod 26 + 26) mod 26,
\* which lies in 0 .. 25; 'A' by 5 is 'F', 'z' by 2 is 'b', 'o' by -3 is 'l'.
C2_ShiftIsMathematicalModulo ==
    (Shifted /\ prev[1].index < ALPHABET_SIZE) =>
        /\ ~panicked
        /\ letter[1].index = MathMod(prev[1].index, call.num)
        /\ letter[1].index \in 0 .. 25
        /\ (into_char(prev[1]) = 65 /\ call.num = 5) => into_char(letter[1]) = 70
        /\ (into_char(prev[1]) = 122 /\ call.num = 2) => into_char(letter[1]) = 98
        /\ (into_char(prev[1]) = 111 /\ call.num = -3) => into_char(letter[1]) = 108

C2_Witness ==
    /\ Shifted
    /\ call.num = I32_MIN
    /\ prev = <<AlphabeticLetter(3, Uppercase)>>
    /\ letter = <<AlphabeticLetter(5, Uppercase)>>

\* C3: an ASCII letter c converted with try_from and back with char::from
\* (u8::from for the byte form) is c again, in its original case.
C3_RoundTrip ==
    /\ (call.op = "try_from_char" /\ call.num \in AsciiLetters) =>
          /\ ~panicked
          /\ out.kind = "char" => out.val = call.num
    /\ (call.op = "try_from_u8" /\ call.num \in AsciiLetters) =>
          /\ ~panicked
          /\ out.kind = "u8" => out.val = call.num

C3_Witness ==
    /\ call.op = "try_from_char"
    /\ call.num = 82
    /\ out = [kind |-> "char", val |-> 82]

\* C4: try_from(char) and try_from(u8) return Err(NotAlphabeticError), and
\* construct no letter, for every input that is not an ASCII letter, and
\* succeed for every ASCII letter.
C4_RejectsNonLetters ==
    call.op \in {"try_from_char", "try_from_u8"} =>
        /\ ~panicked
        /\ result.ok <=> call.num \in AsciiLetters
        /\ result.ok => Len(result.val) = 1 /\ letter = result.val
        /\ ~result.ok => result = Err(NotAlphabeticError) /\ letter = <<>>

C4_Witness ==
    /\ call.op = "try_from_char"
    /\ call.num = 321
    /\ result = Err(NotAlphabeticError)
    /\ letter = <<>>

\* C5: from_string returns Err(NotAlphabeticError) and no sequence when any
\* character is not an ASCII letter; otherwise a sequence as long as the
\* input whose i-th element is try_from of the i-th character ("Hi" gives
\* indices 7, 8 with cases Uppercase, Lowercase); "" gives an empty sequence.
C5_FromStringAtomic ==
    call.op = "from_string" =>
        LET s == call.str IN
        /\ ~panicked
        /\ (\E i \in 1 .. Len(s) : s[i] \notin AsciiLetters) =>
              result = Err(NotAlphabeticError)
        /\ (\A i \in 1 .. Len(s) : s[i] \in AsciiLetters) =>
              /\ result.ok
              /\ Len(result.val) = Len(s)
              /\ \A i \in 1 .. Len(s) :
                    result.val[i] = try_from_char(s[i]).val[1]
        /\ s = <<72, 105>> =>
              result.val = <<AlphabeticLetter(7, Uppercase),
                             AlphabeticLetter(8, Lowercase)>>
        /\ s = <<>> => result = Ok(<<>>)

C5_Witness ==
    /\ call.op = "from_string"
    /\ call.str = <<72, 49>>
    /\ result = Err(NotAlphabeticError)

\* C6: shift never alters the case: after any sequence of shifts with any
\* amounts the case is the one before the call and the one constructed.
C6_ShiftKeepsCase ==
    Shifted =>
        /\ letter[1].case = prev[1].case
        /\ letter[1].case = origin[1].case

C6_Witness ==
    /\ Shifted
    /\ Len(amounts) = 2
    /\ origin[1].case = Uppercase
    /\ letter[1].index # prev[1].index
    /\ prev[1].index # origin[1].index

\* C7: for a letter with index < 26, a shift by n followed by one by
\* 26 - (n mod 26) gives the original letter, and a shift by n gives the
\* same letter as a shift by n + 26 (n + 26 an i32).
C7_ShiftPeriodic ==
    /\ (/\ Len(amounts) = 2
        /\ origin[1].index < ALPHABET_SIZE
        /\ \/ amounts[2] = ALPHABET_SIZE - (amounts[1] % ALPHABET_SIZE)
           \/ amounts[2] = ALPHABET_SIZE - RemI32(amounts[1], ALPHABET_SIZE))
          => letter = origin
    /\ (/\ Shifted
        /\ prev[1].index < ALPHABET_SIZE
        /\ call.num <= I32_MAX - ALPHABET_SIZE)
          => /\ ~panicked
             /\ letter[1] = shift(prev[1], call.num + ALPHABET_SIZE)

C7_Witness ==
    /\ amounts = <<I32_MIN, 24>>
    /\ origin = <<AlphabeticLetter(0, Lowercase)>>
    /\ prev = <<AlphabeticLetter(2, Lowercase)>>
    /\ letter = origin

\* C8: a successful try_from(char) or try_from(u8) gives the offset from 'a'
\* and Lowercase for a-z, the offset from 'A' and Uppercase for A-Z, and the
\* two constructors give the same letter for the same ASCII code.
C8_IndexIsOffset ==
    (call.op \in {"try_from_char", "try_from_u8"} /\ result.ok) =>
        LET c == call.num
            l == result.val[1] IN
        /\ c \in 97 .. 122 => l = AlphabeticLetter(c - 97, Lowercase)
        /\ c \in 65 .. 90 => l = AlphabeticLetter(c - 65, Uppercase)
        /\ c \in {65, 97} => l.index = 0
        /\ c \in {90, 122} => l.index = 25
        /\ result = try_from_char(c)
        /\ result = try_from_u8(c)

C8_Witness ==
    /\ call.op = "try_from_u8"
    /\ call.num = 90
    /\ letter = <<AlphabeticLetter(25, Uppercase)>>

\* C9: for every i32 amount the offset amount % 26 + 26 lies in 1 .. 51, and
\* for every letter shift can be called on, index + offset fits in a u8, so
\* that shift never fails.
C9_ShiftNeverOverflows ==
    Shifted =>
        /\ RemI32(call.num, ALPHABET_SIZE) + ALPHABET_SIZE \in 1 .. 51
        /\ ShiftSum(prev[1], call.num) <= U8_MAX
        /\ ~panicked

\* C10: shifts compose additively: from an index p < 26, after the amounts
\* n1 .. nk the index is (p + n1 + ... + nk) mod 26 and the letter is the one
\* a single shift by the sum gives; shift(0) changes nothing.
C10_ShiftsCompose ==
    (Len(origin) = 1 /\ origin[1].index < ALPHABET_SIZE) =>
        /\ ~panicked
        /\ letter[1] = AlphabeticLetter(
              (origin[1].index + SumMod(amounts)) % ALPHABET_SIZE, origin[1].case)
        /\ Small(amounts) => letter[1] = shift(origin[1], Sum(amounts))
        /\ (Shifted /\ call.num = 0) => letter = prev

C10_Witness ==
    /\ amounts = <<-3, 5>>
    /\ origin = <<AlphabeticLetter(25, Lowercase)>>
    /\ letter = <<AlphabeticLetter(1, Lowercase)>>

====
